---- MODULE Spec2Model ----
(***************************************************************************)
(* Binary Convolution Theory: the invariant engine of                      *)
(* src/src/bct/core/bct_invariants.py and the binary utilities of          *)
(* src/src/core/binary_utils.py.                                           *)
(*                                                                         *)
(* Every function of the core is pure, so a behaviour of this model is one *)
(* call: Init draws the function and its arguments, one action applies the *)
(* function, and the call ends in pc = "done" with ret holding either the  *)
(* returned value or the exception raised.  The two carry simulations L    *)
(* and L_parallel are stepped one pass of their while loop at a time.      *)
(***************************************************************************)
EXTENDS Integers, Sequences, FiniteSets

VARIABLES fn, arg, pc, conv, sweeps, rounds, ret

vars == <<fn, arg, pc, conv, sweeps, rounds, ret>>

(***************************************************************************)
(* Bounds of the model.                                                    *)
(***************************************************************************)
\* operands a, b of the two-argument functions range over -1..MaxN
MaxN == 15
\* the argument n of the one-argument functions ranges over -1..MaxUnary
MaxUnary == 64

\* the model follows a run of L for at most MaxSweeps passes of its while loop
\* (the code sets no limit; no run of the code comes near this one)
MaxSweeps == 3

\* the Mersenne numbers 2^k - 1, k = 2..MaxMersenneK, are drawn as operands
MaxMersenneK == 8

\* the numbers (2^k + 1) / 3, odd k = 3..MaxRippleK, are drawn as operands
MaxRippleK == 13

\* the powers of two 2^a, a = 1..MaxShift, are drawn as operands
MaxShift == 6

\* the numbers 2^e + 1, e = 1..MaxFermatExp, are drawn as arguments
MaxFermatExp == 12

\* bct_invariants.py:196, the round limit of L_parallel
MaxRounds == 1000

\* binary_utils.py:235, FERMAT_PRIMES holds F_0 .. F_4
MaxFermatIndex == 4

(***************************************************************************)
(* Outcome of a call: a returned value or a raised exception.              *)
(***************************************************************************)
Ok(v) == [exc |-> "none", val |-> v]

Raise(e) == [exc |-> e, val |-> 0]

Pending == [exc |-> "pending", val |-> 0]

(***************************************************************************)
(* Arithmetic helpers standing for Python built-ins.                       *)
(***************************************************************************)
RECURSIVE Pow2(_)
Pow2(k) == IF k = 0 THEN 1 ELSE 2 * Pow2(k - 1)

RECURSIVE SumSeq(_)
SumSeq(s) == IF s = <<>> THEN 0 ELSE Head(s) + SumSeq(Tail(s))

\* the largest entry of a non-empty sequence (numpy.max)
MaxSeq(s) ==
  CHOOSE m \in {s[k] : k \in 1..Len(s)} : \A k \in 1..Len(s) : s[k] <= m

Min2(x, y) == IF x <= y THEN x ELSE y

Max2(x, y) == IF x >= y THEN x ELSE y

\* int(n ** 0.5) for n >= 0 (exact in the range of the model)
Isqrt(n) == CHOOSE r \in 0..n : r * r <= n /\ (r + 1) * (r + 1) > n

\* int.bit_length() for n > 0
IntBitLength(n) == CHOOSE l \in 1..(n + 1) : Pow2(l - 1) <= n /\ n < Pow2(l)

\* bin(n) without its "0b" prefix, most significant digit first, for n >= 0
RECURSIVE bin(_)
bin(n) == IF n < 2 THEN <<n>> ELSE Append(bin(n \div 2), n % 2)

\* str.count('1') over a digit string
count1(s) == Cardinality({i \in 1..Len(s) : s[i] = 1})

(***************************************************************************)
(* binary_utils.py                                                         *)
(***************************************************************************)
\* mutant of bin_seq_loop: one more pass of the loop, a padding 0 on top
RECURSIVE bin_seq_loop_padded(_, _)
bin_seq_loop_padded(n, bits) ==
  IF n > 0 THEN bin_seq_loop_padded(n \div 2, Append(bits, n % 2))
  ELSE Append(bits, 0)

\* mutant of bin_seq_loop: digits inserted at the front (MSB first)
RECURSIVE bin_seq_loop_msb_first(_, _)
bin_seq_loop_msb_first(n, bits) ==
  IF n > 0 THEN bin_seq_loop_msb_first(n \div 2, <<n % 2>> \o bits) ELSE bits

\* the while loop of bin_seq: bits.append(n & 1); n >>= 1
RECURSIVE bin_seq_loop(_, _)
bin_seq_loop(n, bits) ==
  IF n > 0 THEN bin_seq_loop(n \div 2, Append(bits, n % 2)) ELSE bits

\* mutant of bin_seq: the domain test lets 0 through
bin_seq_accepts_zero(n) ==
  IF n < 0 THEN Raise("ValueError") ELSE Ok(bin_seq_loop(n, <<>>))

bin_seq(n) ==
  IF n <= 0 THEN Raise("ValueError") ELSE Ok(bin_seq_loop(n, <<>>))

\* mutant of popcount: every digit counted, len(bin(n)) - 2
popcount_all_digits(n) ==
  IF n < 0 THEN Raise("ValueError") ELSE Ok(Len(bin(n)))

popcount(n) ==
  IF n < 0 THEN Raise("ValueError") ELSE Ok(count1(bin(n)))

\* the while loop of bit_positions
RECURSIVE bit_positions_loop(_, _, _)
bit_positions_loop(n, pos, positions) ==
  IF n > 0
  THEN bit_positions_loop(n \div 2, pos + 1,
                          IF n % 2 = 1 THEN positions \cup {pos} ELSE positions)
  ELSE positions

bit_positions(n) ==
  IF n <= 0 THEN Raise("ValueError") ELSE Ok(bit_positions_loop(n, 0, {}))

bit_length(n) ==
  IF n <= 0 THEN Raise("ValueError") ELSE Ok(IntBitLength(n))

\* x & y for x, y >= 0
RECURSIVE BitAnd(_, _)
BitAnd(x, y) ==
  IF x = 0 \/ y = 0 THEN 0
  ELSE (x % 2) * (y % 2) + 2 * BitAnd(x \div 2, y \div 2)

\* mutant of is_power_of_two: 1 = 2^0 is not taken for a power of two
is_power_of_two_above_one(n) == IF n <= 1 THEN FALSE ELSE BitAnd(n, n - 1) = 0

is_power_of_two(n) == IF n <= 0 THEN FALSE ELSE BitAnd(n, n - 1) = 0

\* mutant of is_mersenne: k = m.bit_length(), without the "- 1"
is_mersenne_long_exponent(n) ==
  IF n <= 0 THEN Ok(<<FALSE, -1>>)
  ELSE LET m == n + 1
       IN IF is_power_of_two(m) THEN Ok(<<TRUE, IntBitLength(m)>>)
          ELSE Ok(<<FALSE, -1>>)

is_mersenne(n) ==
  IF n <= 0 THEN Ok(<<FALSE, -1>>)
  ELSE LET m == n + 1
       IN IF is_power_of_two(m) THEN Ok(<<TRUE, IntBitLength(m) - 1>>)
          ELSE Ok(<<FALSE, -1>>)

\* mutant of is_fermat_branch: the exponent is not tested
is_fermat_branch_any_exponent(n) ==
  IF n <= 1 THEN "not_above_one"
  ELSE IF ~is_power_of_two(n - 1) THEN "not_power_of_two"
  ELSE IF IntBitLength(n - 1) - 1 = 0 THEN "exp_zero"
  ELSE "generic"

\* the return statement of is_fermat that a call with argument n reaches
is_fermat_branch(n) ==
  IF n <= 1 THEN "not_above_one"
  ELSE LET m == n - 1
       IN IF ~is_power_of_two(m) THEN "not_power_of_two"
          ELSE LET exp == IntBitLength(m) - 1
               IN IF exp = 0 THEN "exp_zero"
                  ELSE IF is_power_of_two(exp) THEN "generic"
                  ELSE IF n = 3 THEN "special_case"
                  ELSE "fall_through"

\* the value returned by is_fermat at that return statement
is_fermat_result(n, branch) ==
  IF branch = "generic" THEN <<TRUE, IntBitLength(IntBitLength(n - 1) - 1) - 1>>
  ELSE IF branch = "special_case" THEN <<TRUE, 0>>
  ELSE <<FALSE, -1>>

is_fermat(n) == Ok(is_fermat_result(n, is_fermat_branch(n)))

\* pos_list[0] and pos_list[-1] of the sorted positions
MinSet(S) == CHOOSE x \in S : \A y \in S : x <= y

MaxSet(S) == CHOOSE x \in S : \A y \in S : y <= x

\* mutant of is_centrally_symmetric: the integrality test is made on center
\* in place of mirror
is_centrally_symmetric_integer_center(n) ==
  LET positions == bit_positions(n)
  IN IF positions.exc # "none" THEN positions
     ELSE IF Cardinality(positions.val) <= 1 THEN Ok(TRUE)
     ELSE LET center2 == MinSet(positions.val) + MaxSet(positions.val)
          IN Ok(\A p \in positions.val :
                  center2 % 2 = 0 /\ (center2 - p) \in positions.val)

\* mutant of is_centrally_symmetric: center = (lo + hi) // 2
is_centrally_symmetric_floor_center(n) ==
  LET positions == bit_positions(n)
  IN IF positions.exc # "none" THEN positions
     ELSE IF Cardinality(positions.val) <= 1 THEN Ok(TRUE)
     ELSE LET center == (MinSet(positions.val) + MaxSet(positions.val)) \div 2
          IN Ok(\A p \in positions.val : (2 * center - p) \in positions.val)

\* is_centrally_symmetric: center = (pos_list[0] + pos_list[-1]) / 2 is a
\* float, held here as twice its value; mirror = 2 * center - p is then the
\* fraction mirror2 / 2, and the loop returns False at the first p whose
\* mirror is not an integer or not a position
is_centrally_symmetric(n) ==
  LET positions == bit_positions(n)
  IN IF positions.exc # "none" THEN positions
     ELSE IF Cardinality(positions.val) <= 1 THEN Ok(TRUE)
     ELSE LET center2 == MinSet(positions.val) + MaxSet(positions.val)
          IN Ok(\A p \in positions.val :
                  LET mirror2 == 2 * center2 - 2 * p
                  IN mirror2 % 2 = 0 /\ (mirror2 \div 2) \in positions.val)

\* mutant of get_factorizations_step: "a < b" in place of "a <= b"
get_factorizations_step_strict(n, include_trivial, a) ==
  LET b == n \div a
  IN IF n % a = 0 /\ a < b /\ (include_trivial \/ b < n) THEN <<<<a, b>>>> ELSE <<>>

\* the body of the for loop of get_factorizations: what the iteration for a
\* appends to factors
get_factorizations_step(n, include_trivial, a) ==
  LET b == n \div a
  IN IF n % a = 0 /\ a <= b /\ (include_trivial \/ b < n) THEN <<<<a, b>>>> ELSE <<>>

\* the for loop of get_factorizations over range(a, stop): what the
\* iterations a .. mid - 1 append, followed by what mid .. stop - 1 append
RECURSIVE get_factorizations_loop(_, _, _, _)
get_factorizations_loop(n, include_trivial, a, stop) ==
  IF a >= stop THEN <<>>
  ELSE IF a + 1 = stop THEN get_factorizations_step(n, include_trivial, a)
  ELSE LET mid == (a + stop) \div 2
       IN get_factorizations_loop(n, include_trivial, a, mid)
            \o get_factorizations_loop(n, include_trivial, mid, stop)

\* mutant of get_factorizations: range(start, int(n ** 0.5)), the root left out
get_factorizations_short_range(n, include_trivial) ==
  IF n <= 0 THEN Raise("ValueError")
  ELSE LET start == IF include_trivial THEN 1 ELSE 2
       IN Ok(<<>> \o get_factorizations_loop(n, include_trivial, start, Isqrt(n)))

get_factorizations(n, include_trivial) ==
  IF n <= 0 THEN Raise("ValueError")
  ELSE LET start == IF include_trivial THEN 1 ELSE 2
       IN Ok(<<>> \o get_factorizations_loop(n, include_trivial, start, Isqrt(n) + 1))

(***************************************************************************)
(* bct_invariants.py: the convolution and the invariants read off it       *)
(***************************************************************************)
\* numpy.convolve(x, y) in its default 'full' mode, for non-empty x and y:
\* out[k] = sum over i of x[i] * y[k - i], k = 0 .. len(x) + len(y) - 2
\* mutant of convolve: the output cut to the length of the longer input
convolve_truncated(x, y) ==
  [k \in 1..Max2(Len(x), Len(y)) |->
     LET lo == Max2(1, k + 1 - Len(y))
         hi == Min2(Len(x), k)
     IN SumSeq([t \in 1..(hi - lo + 1) |-> x[lo + t - 1] * y[k + 1 - (lo + t - 1)]])]

convolve(x, y) ==
  [k \in 1..(Len(x) + Len(y) - 1) |->
     LET lo == Max2(1, k + 1 - Len(y))
         hi == Min2(Len(x), k)
     IN SumSeq([t \in 1..(hi - lo + 1) |-> x[lo + t - 1] * y[k + 1 - (lo + t - 1)]])]

binary_convolution(a, b) ==
  IF a <= 0 \/ b <= 0 THEN Raise("ValueError")
  ELSE LET bits_a == bin_seq(a)
           bits_b == bin_seq(b)
       IN IF bits_a.exc # "none" THEN bits_a
          ELSE IF bits_b.exc # "none" THEN bits_b
          ELSE Ok(convolve(bits_a.val, bits_b.val))

\* mutant of H: numpy.min in place of numpy.max
H_min(a, b) ==
  LET c == binary_convolution(a, b)
  IN IF c.exc # "none" THEN c
     ELSE Ok(CHOOSE m \in {c.val[k] : k \in 1..Len(c.val)} :
               \A k \in 1..Len(c.val) : m <= c.val[k])

\* mutant of H: numpy.sum in place of numpy.max
H_sum(a, b) ==
  LET c == binary_convolution(a, b)
  IN IF c.exc # "none" THEN c ELSE Ok(SumSeq(c.val))

H(a, b) ==
  LET c == binary_convolution(a, b)
  IN IF c.exc # "none" THEN c ELSE Ok(MaxSeq(c.val))

\* mutant of C: the number of entries above 1 in place of their excess
C_count_above_one(a, b) ==
  LET c == binary_convolution(a, b)
  IN IF c.exc # "none" THEN c
     ELSE Ok(Cardinality({k \in 1..Len(c.val) : c.val[k] > 1}))

\* mutant of C: the excess above 2 in place of the excess above 1
C_excess_above_two(a, b) ==
  LET c == binary_convolution(a, b)
  IN IF c.exc # "none" THEN c
     ELSE Ok(SumSeq([k \in 1..Len(c.val) |-> Max2(c.val[k] - 2, 0)]))

C(a, b) ==
  LET c == binary_convolution(a, b)
  IN IF c.exc # "none" THEN c
     ELSE Ok(SumSeq([k \in 1..Len(c.val) |-> Max2(c.val[k] - 1, 0)]))

(***************************************************************************)
(* bct_invariants.py: the two carry schedules                              *)
(***************************************************************************)
\* any(c > 1 for c in conv), the guard of both while loops
any_above_one(s) == \E k \in 1..Len(s) : s[k] > 1

\* mutant of append_carry: the final carry is appended even when it is 0
append_carry_always(new_conv, carry) == Append(new_conv, carry)

\* while carry > 0: new_conv.append(carry % 2); carry //= 2
RECURSIVE append_carry(_, _)
append_carry(new_conv, carry) ==
  IF carry > 0 THEN append_carry(Append(new_conv, carry % 2), carry \div 2)
  ELSE new_conv

\* mutant of sweep_loop: the carry left after the last position is dropped
RECURSIVE sweep_loop_drops_carry(_, _, _, _)
sweep_loop_drops_carry(s, k, new_conv, carry) ==
  IF k > Len(s) THEN new_conv
  ELSE LET total == s[k] + carry
       IN sweep_loop_drops_carry(s, k + 1, Append(new_conv, total % 2), total \div 2)

\* mutant of sweep_loop: the digit is emitted without "% 2"
RECURSIVE sweep_loop_unreduced(_, _, _, _)
sweep_loop_unreduced(s, k, new_conv, carry) ==
  IF k > Len(s) THEN append_carry(new_conv, carry)
  ELSE LET total == s[k] + carry
       IN sweep_loop_unreduced(s, k + 1, Append(new_conv, total), total \div 2)

\* the for loop of one LSB-to-MSB sweep of L, from position k on
RECURSIVE sweep_loop(_, _, _, _)
sweep_loop(s, k, new_conv, carry) ==
  IF k > Len(s) THEN append_carry(new_conv, carry)
  ELSE LET total == s[k] + carry
       IN sweep_loop(s, k + 1, Append(new_conv, total % 2), total \div 2)

\* mutant of sequential_sweep: the carry generated in a pass is not consumed
\* in that pass (each position takes the carry of the old value below it)
sequential_sweep_stale_carry(s) ==
  append_carry([k \in 1..Len(s) |->
                  (s[k] % 2) + (IF k > 1 THEN s[k - 1] \div 2 ELSE 0)],
               s[Len(s)] \div 2)

\* one pass of the while loop of L
sequential_sweep(s) == sweep_loop(s, 1, <<>>, 0)

\* mutant of parallel_update: the list is updated in place, so position k
\* reads the already updated value of position k - 1
RECURSIVE parallel_update_in_place_loop(_, _, _)
parallel_update_in_place_loop(s, k, new_conv) ==
  IF k > Len(s) THEN append_carry(new_conv, s[Len(s)] \div 2)
  ELSE parallel_update_in_place_loop(s, k + 1,
         Append(new_conv,
                (s[k] % 2) + (IF k > 1 THEN new_conv[k - 1] \div 2 ELSE 0)))

parallel_update_in_place(s) == parallel_update_in_place_loop(s, 1, <<>>)

\* mutant of parallel_update: the incoming carry is added before the
\* reduction, new[k] = (old[k] + old[k-1] // 2) % 2
parallel_update_reduced_sum(s) ==
  LET new_conv == [k \in 1..Len(s) |->
                     (s[k] + (IF k > 1 THEN s[k - 1] \div 2 ELSE 0)) % 2]
  IN append_carry(new_conv, s[Len(s)] \div 2)

\* one pass of the while loop of L_parallel
parallel_update(s) ==
  LET new_conv == [k \in 1..Len(s) |->
                     (s[k] % 2) + (IF k > 1 THEN s[k - 1] \div 2 ELSE 0)]
  IN append_carry(new_conv, s[Len(s)] \div 2)

\* mutant of L_result: min(sweeps, 1) in the zero-sweep case
L_result_min(n) == IF n = 0 THEN Min2(n, 1) ELSE n

\* mutant of L_result: the plain sweep count
L_result_plain(n) == n

\* the return expression of L
L_result(n) == IF n = 0 THEN Max2(n, 1) ELSE n

\* mutant of round_limit_hit: rounds >= 1000
round_limit_hit_early(n) == n >= MaxRounds

\* the safety test at the end of a round of L_parallel
round_limit_hit(n) == n > MaxRounds

(***************************************************************************)
(* bct_invariants.py: predicates over the factorizations of n              *)
(***************************************************************************)
\* mutant of is_bct_perfect_loop: the answer is given on the first pair
is_bct_perfect_loop_first_pair(factorizations, i) ==
  IF i > Len(factorizations) THEN TRUE
  ELSE H(factorizations[i][1], factorizations[i][2]).val = 1

\* the for loop of is_bct_perfect over the factorization list
RECURSIVE is_bct_perfect_loop(_, _)
is_bct_perfect_loop(factorizations, i) ==
  IF i > Len(factorizations) THEN TRUE
  ELSE IF H(factorizations[i][1], factorizations[i][2]).val # 1 THEN FALSE
  ELSE is_bct_perfect_loop(factorizations, i + 1)

is_bct_perfect(n) ==
  IF n <= 1 THEN Raise("ValueError")
  ELSE LET factorizations == get_factorizations(n, FALSE)
       IN IF factorizations.exc # "none" THEN factorizations
          ELSE IF factorizations.val = <<>> THEN Ok(TRUE)
          ELSE Ok(is_bct_perfect_loop(factorizations.val, 1))

\* mutant of sigma_step: the cofactor is added without the "i != n // i" test
sigma_step_root_twice(n, i) ==
  IF n % i = 0 THEN i + n \div i ELSE 0

\* the body of the for loop of sigma: what the iteration for i adds to total
sigma_step(n, i) ==
  IF n % i = 0 THEN i + (IF i # n \div i THEN n \div i ELSE 0) ELSE 0

\* the for loop of sigma over range(i, stop): what the iterations
\* i .. mid - 1 add to total, plus what mid .. stop - 1 add
RECURSIVE sigma_loop(_, _, _)
sigma_loop(n, i, stop) ==
  IF i >= stop THEN 0
  ELSE IF i + 1 = stop THEN sigma_step(n, i)
  ELSE LET mid == (i + stop) \div 2
       IN sigma_loop(n, i, mid) + sigma_loop(n, mid, stop)

sigma(n) ==
  IF n <= 0 THEN Raise("ValueError") ELSE Ok(0 + sigma_loop(n, 1, Isqrt(n) + 1))

RECURSIVE Gcd(_, _)
Gcd(x, y) == IF y = 0 THEN x ELSE Gcd(y, x % y)

\* the float x / y of two positive integers, held as the fraction in lowest
\* terms <<numerator, denominator>> (the operands are far below 2^53, so the
\* float equals 2.0 exactly when the fraction is <<2, 1>>)
TrueDiv(x, y) == <<x \div Gcd(x, y), y \div Gcd(x, y)>>

\* mutant of abundance_ratio: the proper divisors only, (sigma(n) - n) / n
abundance_ratio_proper(n) ==
  LET s == sigma(n)
  IN IF s.exc # "none" THEN s ELSE Ok(TrueDiv(s.val - n, n))

abundance_ratio(n) ==
  LET s == sigma(n)
  IN IF s.exc # "none" THEN s ELSE Ok(TrueDiv(s.val, n))

H_n2(n) == H(n, n)

(***************************************************************************)
(* Inputs.                                                                 *)
(***************************************************************************)
BinaryFns == {"binary_convolution", "H", "C", "L", "L_parallel", "bct_invariants"}

UnaryFns == {"bin_seq", "popcount", "bit_positions", "bit_length", "sigma",
             "is_bct_perfect", "is_centrally_symmetric", "H_n2", "abundance_ratio",
             "is_power_of_two", "is_mersenne", "is_fermat"}

Operands == -1..MaxN

UnaryArgs == -1..MaxUnary

(***************************************************************************)
(* Operands the tests and the theorem scripts call the functions with.     *)
(***************************************************************************)
\* test_bct.py:195, m_k = (1 << k) - 1
Mersenne(k) == Pow2(k) - 1

\* F_k = 2^(2^k) + 1, the entries of FERMAT_PRIMES
Fermat(k) == Pow2(Pow2(k)) + 1

\* thm7_prop5_sweep.py proposition5_m, for odd k >= 3
proposition5_m(k) == (Pow2(k) + 1) \div 3

FermatNumbers == {Fermat(k) : k \in 0..MaxFermatIndex}

\* test_bct.py:170
EvenPerfects == {6, 28, 496, 8128}

\* the numbers 2^e + 1 and the Fermat numbers, arguments of is_fermat
FermatCandidates == FermatNumbers \cup {Pow2(e) + 1 : e \in 1..MaxFermatExp}

\* the Mersenne numbers and their successors, arguments of is_mersenne
MersenneCandidates ==
  {Mersenne(k) : k \in 2..MaxMersenneK} \cup {Pow2(k) : k \in 2..MaxMersenneK}

MersennePairs == {<<Mersenne(k), Mersenne(k)>> : k \in 2..MaxMersenneK}

FermatPairs == FermatNumbers \X FermatNumbers

RipplePairs == {<<3, proposition5_m(k)>> : k \in {j \in 3..MaxRippleK : j % 2 = 1}}

PowerOfTwoPairs == {<<Pow2(a), m>> : a \in 1..MaxShift, m \in 1..MaxN}

SpecialPairs == MersennePairs \cup FermatPairs \cup RipplePairs \cup PowerOfTwoPairs

(***************************************************************************)
(* Operands of more than 31 bits.  L_parallel reaches its round limit only *)
(* on operands of about a thousand bits, beyond the integers of this       *)
(* model; such an operand b is carried by the digit sequence that          *)
(* bin_seq extracts from it (arg.b_digits, with arg.wide = TRUE), paired   *)
(* with a = 5.                                                             *)
(* wide_digits(len) is the LSB-first pattern 1,0,1,1,(0,0,1,1)* cut at     *)
(* len digits; 5 * b then holds a single 2 followed by a run of ones, so   *)
(* the parallel schedule needs len rounds when len % 4 = 0 and len - 2     *)
(* rounds when len % 4 = 3.                                                *)
(***************************************************************************)
wide_digits(len) ==
  [i \in 1..len |-> IF i = 1 THEN 1
                    ELSE IF i = 2 THEN 0
                    ELSE IF i % 4 \in {0, 3} THEN 1 ELSE 0]

\* operands needing MaxRounds, MaxRounds + 1 and MaxRounds + 4 rounds
WideLengths == {MaxRounds, MaxRounds + 3, MaxRounds + 4}

\* binary_convolution(a, b) for a wide b, given by its digits
wide_convolution(a, digits) ==
  LET bits_a == bin_seq(a)
  IN IF bits_a.exc # "none" THEN bits_a ELSE Ok(convolve(bits_a.val, digits))

(***************************************************************************)
(* The state machine of one call.                                          *)
(***************************************************************************)
Init ==
  /\ \/ /\ fn \in BinaryFns
        /\ arg \in [a : Operands, b : Operands, wide : {FALSE}]
     \/ /\ fn \in {"binary_convolution", "H", "C", "L_parallel"}
        /\ \E p \in SpecialPairs : arg = [a |-> p[1], b |-> p[2], wide |-> FALSE]
     \/ /\ fn = "L_parallel"
        /\ \E len \in WideLengths :
             arg = [a |-> 5, b_digits |-> wide_digits(len), wide |-> TRUE]
     \/ /\ fn \in UnaryFns
        /\ arg \in [n : UnaryArgs]
     \/ /\ fn = "popcount"
        /\ arg \in [n : FermatNumbers]
     \/ /\ fn = "is_fermat"
        /\ arg \in [n : FermatCandidates]
     \/ /\ fn = "is_mersenne"
        /\ arg \in [n : MersenneCandidates]
     \/ /\ fn \in {"is_bct_perfect", "sigma", "abundance_ratio"}
        /\ arg \in [n : EvenPerfects]
     \/ /\ fn = "get_factorizations"
        /\ arg \in [n : UnaryArgs, include_trivial : BOOLEAN]
  /\ pc = "call"
  /\ conv = <<>>
  /\ sweeps = 0
  /\ rounds = 0
  /\ ret = Pending

\* a function without a loop of interest runs to its return or raise
Finish(f, outcome) ==
  /\ pc = "call"
  /\ fn = f
  /\ ret' = outcome
  /\ pc' = "done"
  /\ UNCHANGED <<fn, arg, conv, sweeps, rounds>>

Call_bin_seq == Finish("bin_seq", bin_seq(arg.n))

Call_popcount == Finish("popcount", popcount(arg.n))

Call_bit_positions == Finish("bit_positions", bit_positions(arg.n))

Call_bit_length == Finish("bit_length", bit_length(arg.n))

Call_get_factorizations ==
  Finish("get_factorizations", get_factorizations(arg.n, arg.include_trivial))

Call_sigma == Finish("sigma", sigma(arg.n))

Call_is_bct_perfect == Finish("is_bct_perfect", is_bct_perfect(arg.n))

Call_is_centrally_symmetric ==
  Finish("is_centrally_symmetric", is_centrally_symmetric(arg.n))

Call_H_n2 == Finish("H_n2", H_n2(arg.n))

Call_abundance_ratio == Finish("abundance_ratio", abundance_ratio(arg.n))

Call_is_power_of_two == Finish("is_power_of_two", Ok(is_power_of_two(arg.n)))

Call_is_mersenne == Finish("is_mersenne", is_mersenne(arg.n))

\* is_fermat runs its tests down to one of its return statements
is_fermat_test ==
  /\ pc = "call"
  /\ fn = "is_fermat"
  /\ pc' = is_fermat_branch(arg.n)
  /\ UNCHANGED <<fn, arg, conv, sweeps, rounds, ret>>

\* the return statement reached
is_fermat_return ==
  /\ fn = "is_fermat"
  /\ pc \notin {"call", "done"}
  /\ ret' = Ok(is_fermat_result(arg.n, pc))
  /\ pc' = "done"
  /\ UNCHANGED <<fn, arg, conv, sweeps, rounds>>

Call_binary_convolution ==
  Finish("binary_convolution", binary_convolution(arg.a, arg.b))

Call_H == Finish("H", H(arg.a, arg.b))

Call_C == Finish("C", C(arg.a, arg.b))

\* L, and bct_invariants, which calls L after computing h and c:
\* conv = binary_convolution(a, b).tolist(); sweeps = 0
L_enter ==
  /\ pc = "call"
  /\ fn \in {"L", "bct_invariants"}
  /\ LET c == binary_convolution(arg.a, arg.b)
     IN IF c.exc # "none"
        THEN /\ ret' = c
             /\ pc' = "done"
             /\ UNCHANGED <<conv, sweeps>>
        ELSE /\ conv' = c.val
             /\ sweeps' = 0
             /\ pc' = "loop"
             /\ UNCHANGED ret
  /\ UNCHANGED <<fn, arg, rounds>>

\* one pass of the while loop of L
L_sweep ==
  /\ pc = "loop"
  /\ fn \in {"L", "bct_invariants"}
  /\ any_above_one(conv)
  /\ sweeps < MaxSweeps
  /\ sweeps' = sweeps + 1
  /\ conv' = sequential_sweep(conv)
  /\ UNCHANGED <<fn, arg, pc, rounds, ret>>

\* the while loop of L ends; bct_invariants returns (h, c, l)
L_return ==
  /\ pc = "loop"
  /\ fn \in {"L", "bct_invariants"}
  /\ ~any_above_one(conv)
  /\ ret' = IF fn = "L" THEN Ok(L_result(sweeps))
            ELSE Ok(<<H(arg.a, arg.b).val, C(arg.a, arg.b).val, L_result(sweeps)>>)
  /\ pc' = "done"
  /\ UNCHANGED <<fn, arg, conv, sweeps, rounds>>

\* conv = binary_convolution(a, b).tolist(); rounds = 0
L_parallel_enter ==
  /\ pc = "call"
  /\ fn = "L_parallel"
  /\ LET c == IF arg.wide THEN wide_convolution(arg.a, arg.b_digits)
              ELSE binary_convolution(arg.a, arg.b)
     IN IF c.exc # "none"
        THEN /\ ret' = c
             /\ pc' = "done"
             /\ UNCHANGED <<conv, rounds>>
        ELSE /\ conv' = c.val
             /\ rounds' = 0
             /\ pc' = "loop"
             /\ UNCHANGED ret
  /\ UNCHANGED <<fn, arg, sweeps>>

\* one pass of the while loop of L_parallel, with its safety test
L_parallel_round ==
  /\ pc = "loop"
  /\ fn = "L_parallel"
  /\ any_above_one(conv)
  /\ rounds' = rounds + 1
  /\ conv' = parallel_update(conv)
  /\ IF round_limit_hit(rounds')
     THEN /\ ret' = Raise("RuntimeError")
          /\ pc' = "done"
     ELSE UNCHANGED <<ret, pc>>
  /\ UNCHANGED <<fn, arg, sweeps>>

\* mutant of L_parallel_return: the return expression of L, max(rounds, 1)
L_parallel_return_at_least_one ==
  /\ pc = "loop"
  /\ fn = "L_parallel"
  /\ ~any_above_one(conv)
  /\ ret' = Ok(Max2(rounds, 1))
  /\ pc' = "done"
  /\ UNCHANGED <<fn, arg, conv, sweeps, rounds>>

\* the while loop of L_parallel ends: return rounds
L_parallel_return ==
  /\ pc = "loop"
  /\ fn = "L_parallel"
  /\ ~any_above_one(conv)
  /\ ret' = Ok(rounds)
  /\ pc' = "done"
  /\ UNCHANGED <<fn, arg, conv, sweeps, rounds>>

Next ==
  \/ Call_bin_seq
  \/ Call_popcount
  \/ Call_bit_positions
  \/ Call_bit_length
  \/ Call_get_factorizations
  \/ Call_sigma
  \/ Call_is_bct_perfect
  \/ Call_is_centrally_symmetric
  \/ Call_H_n2
  \/ Call_abundance_ratio
  \/ Call_is_power_of_two
  \/ Call_is_mersenne
  \/ is_fermat_test
  \/ is_fermat_return
  \/ Call_binary_convolution
  \/ Call_H
  \/ Call_C
  \/ L_enter
  \/ L_sweep
  \/ L_return
  \/ L_parallel_enter
  \/ L_parallel_round
  \/ L_parallel_return

Spec == Init /\ [][Next]_vars

\* the steps of the two carry simulations
LoopStep ==
  \/ L_enter
  \/ L_sweep
  \/ L_return
  \/ L_parallel_enter
  \/ L_parallel_round
  \/ L_parallel_return

\* a call of L or L_parallel in progress keeps running: the program is
\* sequential and nothing preempts it
FairSpec == Spec /\ WF_vars(LoopStep)

(***************************************************************************)
(* Properties.                                                             *)
(***************************************************************************)
\* the call of f has finished
Done(f) == pc = "done" /\ fn = f

\* both operands are positive integers within the integer range of the model
PositivePair == ~arg.wide /\ arg.a > 0 /\ arg.b > 0

\* digit i (from the least significant, i >= 0) of n, 0 <= n < 2^31
Bit(n, i) == IF i > 30 THEN 0 ELSE (n \div Pow2(i)) % 2

\* number of index pairs (i, j) with i + j = k, a_i = 1 and b_j = 1
PairCount(a, b, k) ==
  Cardinality({p \in (0..k) \X (0..k) :
                 p[1] + p[2] = k /\ Bit(a, p[1]) = 1 /\ Bit(b, p[2]) = 1})

\* every entry of s is 0 or 1
Normalized(s) == \A k \in 1..Len(s) : s[k] \in {0, 1}

\* C1: for a, b > 0, binary_convolution(a, b) has bit_length(a) +
\* bit_length(b) - 1 entries, and entry k is the number of pairs (i, j) with
\* i + j = k whose digits a_i and b_j are both 1.
C1_FullConvolution ==
  (Done("binary_convolution") /\ PositivePair) =>
    /\ ret.exc = "none"
    /\ Len(ret.val) = bit_length(arg.a).val + bit_length(arg.b).val - 1
    /\ \A k \in 0..(Len(ret.val) - 1) : ret.val[k + 1] = PairCount(arg.a, arg.b, k)

C1_Witness ==
  /\ Done("binary_convolution")
  /\ arg.a = 6
  /\ arg.b = 7
  /\ ret = Ok(<<0, 1, 2, 2, 1>>)

\* C2: for a, b > 0, L(a, b) returns 1; when H(a, b) > 1 exactly one sweep is
\* made and the sequence it leaves has every entry in {0,1}; for an
\* orthogonal pair the value returned is 1 as well.
C2_LIsOne ==
  /\ (Done("L") /\ PositivePair) =>
       /\ ret = Ok(1)
       /\ H(arg.a, arg.b).val > 1 => sweeps = 1
  /\ (fn = "L" /\ pc = "loop" /\ sweeps >= 1) => Normalized(conv)

C2_Witness ==
  /\ Done("L")
  /\ arg.a = 7
  /\ arg.b = 7
  /\ sweeps = 1
  /\ conv = <<1, 0, 0, 0, 1, 1>>
  /\ ret = Ok(1)

\* C3 as stated: L(a, b) is 1 when H(a, b) > 1 and 0 when H(a, b) = 1.
C3_ZeroWhenOrthogonal ==
  (Done("L") /\ PositivePair) =>
    ret = Ok(IF H(arg.a, arg.b).val > 1 THEN 1 ELSE 0)

\* C3, amended: the number of sweeps L performs is 1 when H(a, b) > 1 and 0
\* when H(a, b) = 1, and the value L returns is 1 in both cases: when no
\* sweep was performed it returns 1, not the sweep count 0.
C3_SweepsAndResult ==
  (Done("L") /\ PositivePair) =>
    /\ sweeps = (IF H(arg.a, arg.b).val > 1 THEN 1 ELSE 0)
    /\ ret.exc = "none"
    /\ ret.val = (IF sweeps = 0 THEN 1 ELSE sweeps)

C3_Witness ==
  /\ Done("L")
  /\ arg.a = 3
  /\ arg.b = 5
  /\ H(arg.a, arg.b) = Ok(1)
  /\ sweeps = 0
  /\ ret = Ok(1)

\* the synchronous round of C4: new[k] = (old[k] mod 2) + (old[k-1] div 2)
\* with old[-1] = 0, the carry out of the last position becoming a new top
\* entry
SynchronousRound(old) ==
  LET n == Len(old)
      out == old[n] \div 2
  IN [k \in 1..(IF out > 0 THEN n + 1 ELSE n) |->
        IF k = n + 1 THEN out
        ELSE (old[k] % 2) + (IF k > 1 THEN old[k - 1] \div 2 ELSE 0)]

\* the number of synchronous rounds from s until every entry is in {0,1}
RECURSIVE RoundsNeeded(_)
RoundsNeeded(s) == IF Normalized(s) THEN 0 ELSE 1 + RoundsNeeded(SynchronousRound(s))

\* the value returned by a finished call of L_parallel is that number
RoundCountReturned ==
  (Done("L_parallel") /\ PositivePair) =>
    /\ ret = Ok(RoundsNeeded(binary_convolution(arg.a, arg.b).val))
    /\ (arg.a = 7 /\ arg.b = 7) => ret = Ok(3)

PositiveOperands == arg.a > 0 /\ (arg.wide \/ arg.b > 0)

\* C5 as stated: for a, b > 0 a call of L or of L_parallel ends with every
\* entry in {0,1} and, for L_parallel, without the round-limit error.
C5_AlwaysNormalized ==
  (pc = "done" /\ fn \in {"L", "L_parallel"} /\ PositiveOperands) =>
    (ret.exc = "none" /\ Normalized(conv))

\* C5, amended: for a, b > 0 both loops terminate.  The loop of L always
\* ends in the normalized state.  The loop of L_parallel ends either in the
\* normalized state without error (so for every pair of operands up to MaxN)
\* or, when normalisation is not complete after MaxRounds rounds, by
\* raising the round-limit error after round MaxRounds + 1.
C5_Terminates ==
  /\ <>(fn \in {"L", "L_parallel"} => pc = "done")
  /\ []((Done("L") /\ PositivePair) => (ret.exc = "none" /\ Normalized(conv)))
  /\ []((Done("L_parallel") /\ PositiveOperands) =>
          \/ ret.exc = "none" /\ Normalized(conv)
          \/ ret.exc = "RuntimeError" /\ rounds = MaxRounds + 1)
  /\ []((Done("L_parallel") /\ PositivePair) => ret.exc = "none")

C5_Witness ==
  /\ Done("L_parallel")
  /\ arg = [a |-> 15, b |-> 15, wide |-> FALSE]
  /\ rounds = 4
  /\ Normalized(conv)
  /\ ret.exc = "none"

\* C6: for a, b > 0, 1 <= H(a, b) <= min(popcount(a), popcount(b)), H(a, b)
\* being the largest entry of binary_convolution(a, b).
C6_HeightBounds ==
  (Done("H") /\ PositivePair) =>
    LET c == binary_convolution(arg.a, arg.b).val
    IN /\ ret.exc = "none"
       /\ 1 <= ret.val
       /\ ret.val <= Min2(popcount(arg.a).val, popcount(arg.b).val)
       /\ \E k \in 1..Len(c) : c[k] = ret.val
       /\ \A k \in 1..Len(c) : c[k] <= ret.val

C6_Witness ==
  /\ Done("H")
  /\ arg.a = 7
  /\ arg.b = 13
  /\ popcount(arg.a) = Ok(3)
  /\ popcount(arg.b) = Ok(3)
  /\ ret = Ok(2)

\* C7: for a, b > 0 the entries of binary_convolution(a, b) sum to
\* popcount(a) * popcount(b).
C7_ConvolutionSum ==
  (Done("binary_convolution") /\ PositivePair) =>
    /\ ret.exc = "none"
    /\ SumSeq(ret.val) = popcount(arg.a).val * popcount(arg.b).val

C7_Witness ==
  /\ Done("binary_convolution")
  /\ arg.a = 7
  /\ arg.b = 5
  /\ ret = Ok(<<1, 1, 2, 1, 1>>)
  /\ popcount(arg.a).val * popcount(arg.b).val = 6

IsPrime(n) == n > 1 /\ \A d \in 2..(n - 1) : n % d # 0

\* every non-trivial factorization n = a * b, 1 < a <= b < n, is orthogonal
AllFactorizationsOrthogonal(n) ==
  \A a \in 2..(n - 1) :
    (n % a = 0 /\ a <= n \div a /\ n \div a < n) => H(a, n \div a) = Ok(1)

\* C8: for n > 1, is_bct_perfect(n) is true iff every non-trivial
\* factorization of n has H = 1; it is true for every prime, for 15 and for
\* 51, and false for 21.
C8_BctPerfect ==
  (Done("is_bct_perfect") /\ arg.n > 1) =>
    /\ ret.exc = "none"
    /\ ret.val <=> AllFactorizationsOrthogonal(arg.n)
    /\ IsPrime(arg.n) => ret.val
    /\ arg.n \in {15, 51} => ret.val
    /\ arg.n = 21 => ~ret.val

C8_Witness ==
  /\ Done("is_bct_perfect")
  /\ arg.n = 21
  /\ H(3, 7) = Ok(2)
  /\ ret = Ok(FALSE)

\* the arguments of the call break the documented domain of the function
DomainViolation ==
  CASE fn \in {"bin_seq", "bit_positions", "bit_length", "get_factorizations", "sigma"} ->
         arg.n <= 0
    [] fn = "popcount" -> arg.n < 0
    [] fn = "is_bct_perfect" -> arg.n <= 1
    [] fn \in BinaryFns -> ~arg.wide /\ (arg.a <= 0 \/ arg.b <= 0)
    [] OTHER -> FALSE

\* C9: a call outside the domain raises ValueError and returns no value:
\* n <= 0 for bin_seq, bit_positions, bit_length, get_factorizations and
\* sigma; n < 0 for popcount; a <= 0 or b <= 0 for binary_convolution, H, C,
\* L, L_parallel and bct_invariants; n <= 1 for is_bct_perfect.
C9_DomainErrors ==
  /\ (pc = "done" /\ DomainViolation) => ret = Raise("ValueError")
  /\ pc = "loop" => ~DomainViolation

C9_Witness ==
  /\ Done("bct_invariants")
  /\ arg.a = 3
  /\ arg.b = 0
  /\ ret = Raise("ValueError")

\* C10: L_parallel raises RuntimeError exactly when normalisation is not
\* complete after MaxRounds rounds: from a normalized sequence reached within
\* MaxRounds rounds the call returns the round count (never above
\* MaxRounds), and the error is raised by round MaxRounds + 1 and no later.
C10_RoundLimit ==
  [][(fn = "L_parallel" /\ pc = "loop") =>
       /\ ret'.exc = "RuntimeError" <=> (any_above_one(conv) /\ rounds = MaxRounds)
       /\ ret'.exc = "RuntimeError" => (pc' = "done" /\ rounds' = MaxRounds + 1)
       /\ ~any_above_one(conv) =>
            (pc' = "done" /\ ret' = Ok(rounds) /\ rounds <= MaxRounds)
       /\ (any_above_one(conv) /\ rounds < MaxRounds) =>
            (pc' = "loop" /\ rounds' = rounds + 1)]_vars

C10_Witness ==
  /\ Done("L_parallel")
  /\ arg.wide
  /\ Len(arg.b_digits) = MaxRounds + 3
  /\ rounds = MaxRounds + 1
  /\ Normalized(conv)
  /\ ret = Raise("RuntimeError")

\* the pairs held by a returned list, as a set
PairSet(s) == {s[i] : i \in 1..Len(s)}

\* the pairs (a, b) with lo <= a <= b and a * b = n
FactorPairs(n, lo) ==
  {p \in (lo..n) \X (lo..n) : p[1] <= p[2] /\ p[1] * p[2] = n}

\* C12: for n >= 1, get_factorizations(n, False) returns exactly the pairs
\* (a, b) with 2 <= a <= b and a * b = n, each once; with include_trivial it
\* returns exactly those pairs plus (1, n); every returned pair has a <= b
\* and a * b = n.
C12_Factorizations ==
  (Done("get_factorizations") /\ arg.n >= 1) =>
    /\ ret.exc = "none"
    /\ PairSet(ret.val) = FactorPairs(arg.n, IF arg.include_trivial THEN 1 ELSE 2)
    /\ arg.include_trivial =>
         PairSet(ret.val) = FactorPairs(arg.n, 2) \cup {<<1, arg.n>>}
    /\ Cardinality(PairSet(ret.val)) = Len(ret.val)
    /\ \A i \in 1..Len(ret.val) :
         ret.val[i][1] <= ret.val[i][2] /\ ret.val[i][1] * ret.val[i][2] = arg.n

C12_Witness ==
  /\ Done("get_factorizations")
  /\ arg.n = 36
  /\ arg.include_trivial
  /\ ret = Ok(<<<<1, 36>>, <<2, 18>>, <<3, 12>>, <<4, 9>>, <<6, 6>>>>)

\* the symmetric triangle 1, 2, ..., k, ..., 2, 1
Triangle(k) == [i \in 1..(2 * k - 1) |-> IF i <= k THEN i ELSE 2 * k - i]

\* C13: for k >= 2 and M = 2^k - 1, binary_convolution(M, M) is the
\* symmetric triangle 1, 2, ..., k, ..., 2, 1, H(M, M) = k = popcount(M) and
\* C(M, M) = (k - 1)^2.
C13_MersenneLaw ==
  \A k \in 2..MaxMersenneK :
    (pc = "done" /\ fn \in {"binary_convolution", "H", "C"}
       /\ arg.a = Pow2(k) - 1 /\ arg.b = Pow2(k) - 1) =>
      /\ fn = "binary_convolution" => ret = Ok(Triangle(k))
      /\ fn = "H" => (ret = Ok(k) /\ popcount(arg.a) = Ok(k))
      /\ fn = "C" => ret = Ok((k - 1) * (k - 1))

C13_Witness ==
  /\ Done("C")
  /\ arg.a = 255
  /\ arg.b = 255
  /\ ret = Ok(49)

\* C14: for i, j in 0..4 and F_k = 2^(2^k) + 1, popcount(F_i) = 2 and
\* H(F_i, F_j) is 2 when i = j and 1 when i # j.
C14_FermatLaw ==
  \A i, j \in 0..MaxFermatIndex :
    /\ (Done("H") /\ arg.a = Pow2(Pow2(i)) + 1 /\ arg.b = Pow2(Pow2(j)) + 1) =>
         ret = Ok(IF i = j THEN 2 ELSE 1)
    /\ (Done("popcount") /\ arg.n = Pow2(Pow2(i)) + 1) => ret = Ok(2)

C14_Witness ==
  /\ Done("H")
  /\ arg.a = 65537
  /\ arg.b = 257
  /\ popcount(arg.a) = Ok(2)
  /\ ret = Ok(1)

\* the odd exponents of the family of Proposition 5
RippleExponents == {k \in 3..MaxRippleK : k % 2 = 1}

C16_EqualityCondition ==
  /\ (Done("is_centrally_symmetric") /\ arg.n >= 1) =>
       /\ ret.exc = "none"
       /\ ret.val <=> (H_n2(arg.n).val = popcount(arg.n).val)
  /\ (Done("H_n2") /\ arg.n >= 1) =>
       /\ ret.exc = "none"
       /\ (ret.val = popcount(arg.n).val) <=> is_centrally_symmetric(arg.n).val

C16_Witness ==
  /\ Done("is_centrally_symmetric")
  /\ arg.n = 11
  /\ H_n2(arg.n) = Ok(2)
  /\ popcount(arg.n) = Ok(3)
  /\ ret = Ok(FALSE)

\* the odd m with n = 2^a * m, for n >= 1
RECURSIVE OddPart(_)
OddPart(n) == IF n % 2 = 0 THEN OddPart(n \div 2) ELSE n

\* C17: for n >= 2 written n = 2^a * m with m odd, is_bct_perfect(n) =
\* is_bct_perfect(m) when m > 1, and is_bct_perfect(n) is true when m = 1
\* (n a pure power of two).
C17_Inheritance ==
  (Done("is_bct_perfect") /\ arg.n >= 2) =>
    /\ ret.exc = "none"
    /\ OddPart(arg.n) > 1 => ret = is_bct_perfect(OddPart(arg.n))
    /\ OddPart(arg.n) = 1 => ret = Ok(TRUE)

C17_Witness ==
  /\ Done("is_bct_perfect")
  /\ arg.n = 42
  /\ OddPart(arg.n) = 21
  /\ is_bct_perfect(21) = Ok(FALSE)
  /\ ret = Ok(FALSE)

\* C18: for a >= 1 and m >= 1, H(2^a, m) = 1: binary_convolution(2^a, m) is
\* the digit sequence of m shifted up by a positions.
C18_PowerOfTwoOrthogonal ==
  \A a \in 1..MaxShift :
    /\ (Done("H") /\ arg.a = Pow2(a) /\ arg.b >= 1) => ret = Ok(1)
    /\ (Done("binary_convolution") /\ arg.a = Pow2(a) /\ arg.b >= 1) =>
         /\ ret.exc = "none"
         /\ Len(ret.val) = a + bit_length(arg.b).val
         /\ \A k \in 0..(Len(ret.val) - 1) :
              ret.val[k + 1] = (IF k < a THEN 0 ELSE Bit(arg.b, k - a))

C18_Witness ==
  /\ Done("H")
  /\ arg.a = 64
  /\ arg.b = 15
  /\ binary_convolution(64, 15) = Ok(<<0, 0, 0, 0, 0, 0, 1, 1, 1, 1>>)
  /\ ret = Ok(1)

\* the sum of the divisors of n among lo .. hi, each taken once
RECURSIVE DivisorSum(_, _, _)
DivisorSum(n, lo, hi) ==
  IF lo > hi THEN 0
  ELSE IF lo = hi THEN (IF n % lo = 0 THEN lo ELSE 0)
  ELSE DivisorSum(n, lo, (lo + hi) \div 2) + DivisorSum(n, (lo + hi) \div 2 + 1, hi)

\* C19: for n >= 1, sigma(n) is the sum of all positive divisors of n, each
\* counted once (the root of a perfect square is not counted twice);
\* sigma(1) = 1, sigma(6) = 12, sigma(12) = 28, sigma(28) = 56.
C19_SigmaDivisorSum ==
  (Done("sigma") /\ arg.n >= 1) =>
    /\ ret = Ok(DivisorSum(arg.n, 1, arg.n))
    /\ arg.n = 1 => ret = Ok(1)
    /\ arg.n = 6 => ret = Ok(12)
    /\ arg.n = 12 => ret = Ok(28)
    /\ arg.n = 28 => ret = Ok(56)

C19_Witness ==
  /\ Done("sigma")
  /\ arg.n = 36
  /\ Isqrt(arg.n) * Isqrt(arg.n) = arg.n
  /\ ret = Ok(91)

\* C20: every even perfect number P in {6, 28, 496, 8128} is BCT-perfect and
\* has abundance ratio exactly 2: sigma(P) = 2 * P.
C20_EvenPerfect ==
  (pc = "done" /\ fn \in {"is_bct_perfect", "abundance_ratio", "sigma"}
     /\ arg.n \in {6, 28, 496, 8128}) =>
    /\ fn = "is_bct_perfect" => ret = Ok(TRUE)
    /\ fn = "abundance_ratio" => ret = Ok(<<2, 1>>)
    /\ fn = "sigma" => ret = Ok(2 * arg.n)

C20_Witness ==
  /\ Done("abundance_ratio")
  /\ arg.n = 8128
  /\ sigma(arg.n) = Ok(16256)
  /\ is_bct_perfect(arg.n) = Ok(TRUE)
  /\ ret = Ok(<<2, 1>>)

\* the integer whose LSB-first digits are s: sum over i of s[i] * 2^i
RECURSIVE ValueOf(_)
ValueOf(s) == IF s = <<>> THEN 0 ELSE Head(s) + 2 * ValueOf(Tail(s))

\* C21: for n > 0, bin_seq(n) is the LSB-first digit sequence of n: every
\* entry is 0 or 1, the last entry is 1, the entries weighted by 2^i sum to
\* n, their plain sum is popcount(n) and their number is bit_length(n).
C21_DigitSequence ==
  (Done("bin_seq") /\ arg.n > 0) =>
    /\ ret.exc = "none"
    /\ Len(ret.val) = bit_length(arg.n).val
    /\ Normalized(ret.val)
    /\ ret.val[Len(ret.val)] = 1
    /\ ValueOf(ret.val) = arg.n
    /\ SumSeq(ret.val) = popcount(arg.n).val

C21_Witness ==
  /\ Done("bin_seq")
  /\ arg.n = 44
  /\ popcount(arg.n) = Ok(3)
  /\ bit_length(arg.n) = Ok(6)
  /\ ret = Ok(<<0, 0, 1, 1, 0, 1>>)

\* C22: for n >= 1, is_fermat(n) returns (True, k) when n = 2^(2^k) + 1 for
\* some k >= 0, with that k, and (False, -1) otherwise; 3, 5, 17 and 257
\* give k = 0, 1, 2, 3, and n <= 1, 2, 7, 9 and 15 are rejected.
C22_FermatTest ==
  Done("is_fermat") =>
    /\ ret.exc = "none"
    /\ arg.n >= 1 =>
         \/ \E k \in 0..MaxFermatIndex :
              arg.n = Pow2(Pow2(k)) + 1 /\ ret.val = <<TRUE, k>>
         \/ /\ \A k \in 0..MaxFermatIndex : arg.n # Pow2(Pow2(k)) + 1
            /\ ret.val = <<FALSE, -1>>
    /\ arg.n = 3 => ret.val = <<TRUE, 0>>
    /\ arg.n = 5 => ret.val = <<TRUE, 1>>
    /\ arg.n = 17 => ret.val = <<TRUE, 2>>
    /\ arg.n = 257 => ret.val = <<TRUE, 3>>
    /\ (arg.n <= 1 \/ arg.n \in {2, 7, 9, 15}) => ret.val = <<FALSE, -1>>

C22_Witness ==
  /\ Done("is_fermat")
  /\ arg.n = 65537
  /\ ret = Ok(<<TRUE, 4>>)

\* C23: for n >= 1, is_mersenne(n) returns (True, k) when n + 1 is a power
\* of two, k being the exponent with n = 2^k - 1, and (False, -1) otherwise;
\* is_mersenne(31) = (True, 5), is_mersenne(30) = (False, -1).
C23_MersenneTest ==
  (Done("is_mersenne") /\ arg.n >= 1) =>
    /\ ret.exc = "none"
    /\ \/ \E k \in 1..30 : arg.n = Pow2(k) - 1 /\ ret.val = <<TRUE, k>>
       \/ /\ \A k \in 1..30 : arg.n # Pow2(k) - 1
          /\ ret.val = <<FALSE, -1>>
    /\ arg.n = 31 => ret.val = <<TRUE, 5>>
    /\ arg.n = 30 => ret.val = <<FALSE, -1>>

C23_Witness ==
  /\ Done("is_mersenne")
  /\ arg.n = 255
  /\ ret = Ok(<<TRUE, 8>>)

\* the positions of the digits 1 of n, 0 < n < 2^31, read off n arithmetically
SetBits(n) == {p \in 0..30 : Bit(n, p) = 1}

\* C24: for n > 0, is_centrally_symmetric(n) is true iff, lo and hi being
\* the lowest and highest set-bit positions of n, lo + hi - p is a set bit
\* for every set bit p; a single set bit is symmetric, and a half-integer
\* midpoint (n = 6, bits {1, 2}) does not make n asymmetric.
C24_CentralSymmetry ==
  (Done("is_centrally_symmetric") /\ arg.n > 0) =>
    LET S == SetBits(arg.n)
        lo == CHOOSE p \in S : \A q \in S : p <= q
        hi == CHOOSE p \in S : \A q \in S : q <= p
    IN /\ ret.exc = "none"
       /\ ret.val <=> (\A p \in S : (lo + hi - p) \in S)
       /\ Cardinality(S) = 1 => ret.val
       /\ arg.n = 6 => ret.val

C24_Witness ==
  /\ Done("is_centrally_symmetric")
  /\ arg.n = 6
  /\ SetBits(arg.n) = {1, 2}
  /\ ret = Ok(TRUE)

\* the value of L carried by the result of a finished call of L or of
\* bct_invariants
LValue == IF fn = "L" THEN ret.val ELSE ret.val[3]

\* C25 as stated: for no a, b > 0 does control reach the return statement of
\* L with sweeps = 0.
C25_ZeroSweepUnreachable ==
  (pc = "done" /\ fn \in {"L", "bct_invariants"} /\ PositivePair) => sweeps # 0

\* C25, amended: the zero-sweep case at the return statement of L is
\* reachable: control reaches the return with sweeps = 0 exactly when
\* binary_convolution(a, b) has no entry above 1 (H(a, b) = 1), and the
\* special case then makes L return 1; with sweeps > 0 the sweep count is
\* returned.
C25_ZeroSweepReached ==
  (pc = "done" /\ fn \in {"L", "bct_invariants"} /\ PositivePair) =>
    /\ ret.exc = "none"
    /\ sweeps = 0 <=> ~any_above_one(binary_convolution(arg.a, arg.b).val)
    /\ sweeps = 0 => LValue = 1
    /\ sweeps > 0 => LValue = sweeps

C25_Witness ==
  /\ Done("bct_invariants")
  /\ arg.a = 9
  /\ arg.b = 2
  /\ sweeps = 0
  /\ ret = Ok(<<1, 0, 1>>)

\* bit_length(a) + bit_length(b) for the operands of the call
OperandBits ==
  bit_length(arg.a).val
    + (IF arg.wide THEN Len(arg.b_digits) ELSE bit_length(arg.b).val)

\* the carry that a sweep of L over s brings into position k (1-based)
RECURSIVE CarryInto(_, _)
CarryInto(s, k) == IF k = 1 THEN 0 ELSE (s[k - 1] + CarryInto(s, k - 1)) \div 2

\* a call of L or L_parallel is inside its while loop or has left it
InCarryLoop ==
  /\ fn \in {"L", "bct_invariants", "L_parallel"}
  /\ pc \in {"loop", "done"}
  /\ ret.exc # "ValueError"

\* C26: in every run of L and of L_parallel on a, b > 0 the working sequence
\* starts with bit_length(a) + bit_length(b) - 1 entries and never has more
\* than bit_length(a) + bit_length(b): at most one entry is appended in
\* total, and the carry out of the last position in any pass is at most 1.
C26_LengthBound ==
  /\ [](InCarryLoop =>
          /\ OperandBits - 1 <= Len(conv)
          /\ Len(conv) <= OperandBits)
  /\ [][(fn \in {"L", "bct_invariants", "L_parallel"} /\ pc = "call" /\ pc' = "loop") =>
          Len(conv') = OperandBits - 1]_vars
  /\ [][(fn = "L_parallel" /\ pc = "loop" /\ rounds' # rounds) =>
          /\ conv[Len(conv)] \div 2 <= 1
          /\ Len(conv') = Len(conv) + conv[Len(conv)] \div 2]_vars
  /\ [][(fn \in {"L", "bct_invariants"} /\ pc = "loop" /\ sweeps' # sweeps) =>
          /\ CarryInto(conv, Len(conv) + 1) <= 1
          /\ Len(conv') = Len(conv) + CarryInto(conv, Len(conv) + 1)]_vars

C26_Witness ==
  /\ fn = "L_parallel"
  /\ pc = "loop"
  /\ ~arg.wide
  /\ arg.a = 15
  /\ arg.b = 15
  /\ rounds = 2
  /\ Len(conv) = 8
  /\ OperandBits = 8

\* a call of is_fermat stands at one of its return statements
AtFermatReturn == fn = "is_fermat" /\ pc \notin {"call", "done"}

ProductInRange == InCarryLoop /\ ~arg.wide /\ OperandBits <= 31

\* C28: in L and in L_parallel the working sequence c satisfies
\* sum over k of c[k] * 2^k = a * b before and after every pass; the
\* normalised sequence at loop exit is, in both, bin_seq(a * b): top entry 1
\* and no padding.
C28_ValuePreserved ==
  /\ ProductInRange => ValueOf(conv) = arg.a * arg.b
  /\ (ProductInRange /\ ~any_above_one(conv)) =>
       /\ conv = bin_seq(arg.a * arg.b).val
       /\ conv[Len(conv)] = 1
  /\ (ProductInRange /\ pc = "done") => ~any_above_one(conv)

C28_Witness ==
  /\ Done("L_parallel")
  /\ ~arg.wide
  /\ arg.a = 3
  /\ arg.b = 2731
  /\ rounds = 12
  /\ ValueOf(conv) = 8193
  /\ conv = bin_seq(8193).val

\* C29: for a, b > 0, L_parallel(a, b) = 0 if and only if H(a, b) = 1, and
\* L_parallel(a, b) >= 1 when H(a, b) > 1; on an orthogonal pair
\* L_parallel(a, b) = 0 lies strictly below L(a, b) = 1.
C29_ParallelZeroConvention ==
  /\ (Done("L_parallel") /\ PositivePair) =>
       /\ ret.exc = "none"
       /\ ret.val = 0 <=> H(arg.a, arg.b) = Ok(1)
       /\ H(arg.a, arg.b).val > 1 => ret.val >= 1
  /\ (Done("L") /\ PositivePair /\ H(arg.a, arg.b) = Ok(1)) =>
       /\ ret = Ok(1)
       /\ sweeps = 0
       /\ rounds = 0

C29_Witness ==
  /\ Done("L_parallel")
  /\ ~arg.wide
  /\ arg.a = 5
  /\ arg.b = 9
  /\ H(arg.a, arg.b) = Ok(1)
  /\ ret = Ok(0)

\* the number of non-zero entries of the sequence s
NonZeroEntries(s) == Cardinality({k \in 1..Len(s) : s[k] # 0})

\* C30: for a, b > 0, C(a, b) equals popcount(a) * popcount(b) minus the
\* number of non-zero entries of binary_convolution(a, b); C(a, b) = 0 if
\* and only if H(a, b) = 1; and C(a, b) >= H(a, b) - 1.  The h and c of
\* bct_invariants(a, b) obey the same relations.
C30_CollisionCount ==
  /\ (Done("C") /\ PositivePair) =>
       /\ ret.exc = "none"
       /\ ret.val >= 0
       /\ ret.val = popcount(arg.a).val * popcount(arg.b).val
                      - NonZeroEntries(binary_convolution(arg.a, arg.b).val)
       /\ ret.val = 0 <=> H(arg.a, arg.b) = Ok(1)
       /\ ret.val >= H(arg.a, arg.b).val - 1
  /\ (Done("bct_invariants") /\ PositivePair) =>
       /\ ret.exc = "none"
       /\ ret.val[2] = popcount(arg.a).val * popcount(arg.b).val
                         - NonZeroEntries(binary_convolution(arg.a, arg.b).val)
       /\ ret.val[2] = 0 <=> ret.val[1] = 1
       /\ ret.val[2] >= ret.val[1] - 1

C30_Witness ==
  /\ Done("C")
  /\ arg.a = 7
  /\ arg.b = 7
  /\ popcount(arg.a).val * popcount(arg.b).val = 9
  /\ NonZeroEntries(binary_convolution(arg.a, arg.b).val) = 5
  /\ H(arg.a, arg.b) = Ok(3)
  /\ ret = Ok(4)

====
